---- MODULE Spec2Model ----
(***************************************************************************)
(* flowtop: the flow accounting engine of src/flowtop/flow.py (Flow,       *)
(* FlowTracker, FlowTop.render) and the flow table window of               *)
(* src/flowtop/window.py.                                                  *)
(*                                                                         *)
(* Time is counted in ticks, TicksPerSec ticks to the second, so that      *)
(* int(time.time()) is a real truncation.  Python objects (Flow, dict) are *)
(* references: Flow objects live in `heap` under an object id, the flow    *)
(* table maps a hash to an id, and the window holds either the table dict  *)
(* itself or a dict of its own.                                            *)
(*                                                                         *)
(* Spec     : the FlowTracker's methods, one call at a time, each one step.*)
(* DirSpec  : account_packet over every pair of addresses and ports.       *)
(* ConcSpec : the capture thread and the control thread (FlowTop.run)      *)
(*            interleave at the statements of their handlers.              *)
(* ReadSpec : ConcSpec without clear().                                    *)
(* LifeSpec : FlowTop.run from the start of the capture thread to the end  *)
(*            of the process.                                              *)
(***************************************************************************)
EXTENDS Integers, Sequences, FiniteSets, TLC

\* ------------------------------------------------------------------ bounds
TicksPerSec == 2
MaxClock == 4
MaxTimeout == 1
MaxPackets == 2

\* --------------------------------------------------------- program constants
NO_EXPIRATION == 0
None == 0 - 1

VARIABLES
    now,            \* time.time(), in ticks
    FLOW_TIMEOUT,   \* FlowTracker.FLOW_TIMEOUT, the configured timeout in seconds
    flow_table,     \* FlowTracker.__flow_table: hash -> object id of a Flow
    start_ts,       \* FlowTracker.__start_ts, in ticks
    heap,           \* the Flow objects: object id -> fields
    render_expired, \* FlowTop.__render_expired
    last_op,        \* the FlowTracker method (account_packet, expire_flows, clear) called last
    last_pkt,       \* the packet it was called with, when that method is account_packet
    swept,          \* the hashes of the Flows the latest expire_flows() passed to expire()
    cap_pc,         \* capture thread: its place in account_packet
    cap_pkt,        \* capture thread: the packet being accounted
    cap_flow,       \* capture thread: the local variable flow (an object id, 0 when unset)
    cap_n,          \* the accepted packets handed to account_packet so far
    cap_bytes,      \* the sum of their lengths
    ctl_pc,         \* control thread: its place in FlowTop.run
    ctl_it,         \* control thread: the dict iteration in progress
    stats_acc,      \* control thread: the fields of the stats tuple evaluated so far
    win_flows,      \* FlowTableWindow.__flows: the object handed to set_flows
    win_rows,       \* the counters FlowTableWindow._update read: hash -> <<packets_n, bytes_n>>
    win_stats,      \* GlobalStatWindow's six fields
    snap_rows,      \* the counters of the Flows of win_flows when the snapshot was taken
    running,        \* FlowTop.__running
    force_render    \* FlowTop.run: the local variable force_render

data == <<now, FLOW_TIMEOUT, flow_table, start_ts, heap, render_expired>>

\* ------------------------------------------------------------- inputs
\* Addresses in dotted-quad form, as four octets.
IPs == {<<0, 0, 0, 1>>, <<0, 0, 0, 2>>}
Ports == {80, 1234}
Lens == {40, 60}
L4s == {"TCP", "UDP", "SCTP", "ICMP"}

\* The IP header's proto field of a packet whose payload is the given layer.
ProtoOf(l4) ==
    CASE l4 = "TCP" -> 6
      [] l4 = "UDP" -> 17
      [] l4 = "SCTP" -> 132
      [] OTHER -> 1

\* Decoded packets: with an IP layer, or (ip = FALSE) without one.
AllPackets ==
    [ip : BOOLEAN, l4 : L4s, src : IPs, dst : IPs, sport : Ports, dport : Ports, len : Lens]

NoPacket ==
    [ip |-> FALSE, l4 |-> "none", src |-> <<0, 0, 0, 0>>, dst |-> <<0, 0, 0, 0>>,
     sport |-> 0, dport |-> 0, len |-> 0]

\* The packets of one connection: TCP packets of both directions, and in one direction
\* UDP packets, an SCTP packet, an ICMP packet and a TCP packet without IP layer.
Packets ==
    {p \in AllPackets :
        \/ /\ p.src = <<0, 0, 0, 1>> /\ p.dst = <<0, 0, 0, 2>> /\ p.sport = 1234 /\ p.dport = 80
           /\ \/ p.ip /\ p.l4 \in {"TCP", "UDP"}
              \/ p.ip /\ p.l4 \in {"SCTP", "ICMP"} /\ p.len = 40
              \/ ~p.ip /\ p.l4 = "TCP" /\ p.len = 40
        \/ /\ p.src = <<0, 0, 0, 2>> /\ p.dst = <<0, 0, 0, 1>> /\ p.sport = 80 /\ p.dport = 1234
           /\ p.ip /\ p.l4 = "TCP"}

\* ------------------------------------------------------------- pure functions
EmptyDict == <<>>

int(t) == t \div TicksPerSec

ip2int(ip) == ((ip[1] * 256 + ip[2]) * 256 + ip[3]) * 256 + ip[4]

RECURSIVE XOR(_, _)
XOR(a, b) ==
    IF a = 0 THEN b
    ELSE IF b = 0 THEN a
    ELSE (((a % 2) + (b % 2)) % 2) + 2 * XOR(a \div 2, b \div 2)

\* the hash with the two addresses weighted differently
calc_five_tuple_hash_directed(t) ==
    XOR(XOR(XOR(XOR(ip2int(t[1]) * 59, ip2int(t[2]) * 61), t[3] * 13), t[4] * 13), t[5])

calc_five_tuple_hash(t) ==
    XOR(XOR(XOR(XOR(ip2int(t[1]) * 59, ip2int(t[2]) * 59), t[3] * 13), t[4] * 13), t[5])

FiveTuple(p) == <<p.src, p.dst, p.sport, p.dport, ProtoOf(p.l4)>>

RECURSIVE Gcd(_, _)
Gcd(a, b) == IF b = 0 THEN a ELSE Gcd(b, a % b)

\* total / timeframe as Python computes it: a float, here the reduced fraction
\* <<numerator, denominator>>; the ZeroDivisionError handler returns 0.
Rate(total, timeframe) ==
    IF timeframe = 0 THEN <<0, 1>>
    ELSE LET g == Gcd(total, timeframe) IN <<total \div g, timeframe \div g>>

Range(f) == {f[x] : x \in DOMAIN f}

Restrict(f, S) == [x \in (DOMAIN f) \cap S |-> f[x]]

\* sum(...) over the values of a dict
RECURSIVE Sum(_)
Sum(f) ==
    IF DOMAIN f = {} THEN 0
    ELSE LET x == CHOOSE y \in DOMAIN f : TRUE IN f[x] + Sum(Restrict(f, DOMAIN f \ {x}))

\* ------------------------------------------------------------- Flow
\* Flow.__init__ (the reverse-DNS labels l3_src/l3_dst play no part in accounting)
Flow(five_tuple, clock) ==
    [src_ip |-> five_tuple[1], dst_ip |-> five_tuple[2],
     src_port |-> five_tuple[3], dst_port |-> five_tuple[4], ip_proto |-> five_tuple[5],
     first_packet_ts |-> None, last_activity |-> clock,
     packets_n |-> 0, bytes_n |-> 0, expired |-> FALSE]

\* account_packet that counts the packet but not its length
Flow_account_packet_nolen(f, p, clock) ==
    [f EXCEPT !.first_packet_ts = IF @ = None THEN clock ELSE @,
              !.last_activity = clock,
              !.packets_n = @ + 1]

\* account_packet that makes an expired Flow active again
Flow_account_packet_revives(f, p, clock) ==
    [f EXCEPT !.first_packet_ts = IF @ = None THEN clock ELSE @,
              !.last_activity = clock,
              !.packets_n = @ + 1,
              !.bytes_n = @ + p.len,
              !.expired = FALSE]

\* account_packet that ignores the packet once the Flow is expired
Flow_account_packet_frozen(f, p, clock) ==
    IF f.expired THEN f
    ELSE [f EXCEPT !.first_packet_ts = IF @ = None THEN clock ELSE @,
                   !.last_activity = clock,
                   !.packets_n = @ + 1,
                   !.bytes_n = @ + p.len]

\* Flow.account_packet; packet.time is the clock at capture
Flow_account_packet(f, p, clock) ==
    [f EXCEPT !.first_packet_ts = IF @ = None THEN clock ELSE @,
              !.last_activity = clock,
              !.packets_n = @ + 1,
              !.bytes_n = @ + p.len]

\* Flow.expire
Flow_expire(f) == [f EXCEPT !.expired = TRUE]

\* ------------------------------------------------------------- FlowTracker
ObjIds == 1 .. (2 * MaxPackets + 1)

\* a fresh object: the smallest id no live object has
NewId(hp) == CHOOSE i \in ObjIds \ DOMAIN hp : \A j \in ObjIds \ DOMAIN hp : i <= j

\* the dict the window holds: the flow table itself, or a dict of its own
DictOf(win, tbl) == IF win.alias THEN tbl ELSE win.dict

\* garbage collection: the objects some reference still reaches
Collect(hp, tbl, win, locals) ==
    Restrict(hp, Range(tbl) \cup Range(DictOf(win, tbl)) \cup locals)

\* calc_five_tuple_hash, tabulated over the five-tuples of the packets
HashOf == [t \in {FiveTuple(p) : p \in AllPackets} |-> calc_five_tuple_hash(t)]

\* account_packet, lines 304-307: hashsum
KeyOfPacket(p) == HashOf[FiveTuple(p)]

\* FlowTracker.flows
flows(tbl) == [alias |-> TRUE, dict |-> EmptyDict]

\* active_flows with the filter inverted
active_flows_inverted(tbl, hp) ==
    [alias |-> FALSE,
     dict |-> [hashsum \in {h \in DOMAIN tbl : hp[tbl[h]].expired} |-> tbl[hashsum]]]

\* FlowTracker.active_flows
active_flows(tbl, hp) ==
    [alias |-> FALSE,
     dict |-> [hashsum \in {h \in DOMAIN tbl : ~hp[tbl[h]].expired} |-> tbl[hashsum]]]

\* FlowTracker.flows_n
flows_n(tbl) == Cardinality(DOMAIN tbl)

\* FlowTracker.packets_n
packets_n(tbl, hp) == Sum([h \in DOMAIN tbl |-> hp[tbl[h]].packets_n])

\* FlowTracker.bytes_n
bytes_n(tbl, hp) == Sum([h \in DOMAIN tbl |-> hp[tbl[h]].bytes_n])

\* FlowTracker.timeframe
timeframe(clock, start) == int(clock) - int(start)

\* FlowTracker.avg_packets_per_s
avg_packets_per_s(tbl, hp, clock, start) == Rate(packets_n(tbl, hp), timeframe(clock, start))

\* FlowTracker.avg_bytes_per_s
avg_bytes_per_s(tbl, hp, clock, start) == Rate(bytes_n(tbl, hp), timeframe(clock, start))

\* FlowTracker.avg_flows_per_s
avg_flows_per_s(tbl, clock, start) == Rate(flows_n(tbl), timeframe(clock, start))

\* FlowTracker.stats, evaluated in one state
stats(tbl, hp, clock, start) ==
    <<packets_n(tbl, hp), avg_packets_per_s(tbl, hp, clock, start),
      bytes_n(tbl, hp), avg_bytes_per_s(tbl, hp, clock, start),
      flows_n(tbl), avg_flows_per_s(tbl, clock, start)>>

\* the layer tests without the IP test
Accepts_any_l3(p) ==
    IF p.l4 = "TCP" THEN TRUE
    ELSE IF p.l4 = "UDP" THEN TRUE
    ELSE FALSE

\* FlowTracker.account_packet, the layer tests: TRUE when the packet is accounted
Accepts(p) ==
    IF p.ip
    THEN IF p.l4 = "TCP" THEN TRUE
         ELSE IF p.l4 = "UDP" THEN TRUE
         ELSE FALSE
    ELSE FALSE

\* the sweep without the NO_EXPIRATION switch
ExpireSet_always(timeout, tbl, hp, clock) ==
    {h \in DOMAIN tbl : (int(clock) - int(hp[tbl[h]].last_activity)) > timeout}

\* the sweep comparing with >= instead of >
ExpireSet_geq(timeout, tbl, hp, clock) ==
    IF timeout = NO_EXPIRATION THEN {}
    ELSE {h \in DOMAIN tbl : (int(clock) - int(hp[tbl[h]].last_activity)) >= timeout}

\* FlowTracker.expire_flows: the hashes of the Flows the sweep passes to expire()
ExpireSet(timeout, tbl, hp, clock) ==
    IF timeout = NO_EXPIRATION THEN {}
    ELSE {h \in DOMAIN tbl : (int(clock) - int(hp[tbl[h]].last_activity)) > timeout}

\* FlowTableWindow._update: the counters formatted for each Flow of the window's dict
Rows(d, hp) == [h \in DOMAIN d |-> <<hp[d[h]].packets_n, hp[d[h]].bytes_n>>]

ZeroStats == <<0, <<0, 1>>, 0, <<0, 1>>, 0, <<0, 1>>>>

\* ------------------------------------------------------------- handlers, one step each
hist == <<last_op, last_pkt, swept>>

\* the threads' places and locals, and the windows
conc == <<cap_pc, cap_pkt, cap_flow, cap_n, cap_bytes, ctl_pc, ctl_it, stats_acc,
          win_flows, win_rows, win_stats, snap_rows>>

\* FlowTop.run's own state
life == <<running, force_render>>

vars == <<data, hist, conc, life>>

NoIter == [on |-> FALSE, used |-> 0, todo |-> {}, sum |-> 0, dict |-> EmptyDict, quiet |-> FALSE]

NoWindow == [alias |-> FALSE, dict |-> EmptyDict]

Init ==
    /\ now = 0
    /\ FLOW_TIMEOUT \in {NO_EXPIRATION, MaxTimeout}
    /\ flow_table = EmptyDict
    /\ start_ts = now
    /\ heap = EmptyDict
    /\ render_expired = FALSE
    /\ last_op = "init"
    /\ last_pkt = NoPacket
    /\ swept = {}
    /\ cap_pc = "idle"
    /\ cap_pkt = NoPacket
    /\ cap_flow = 0
    /\ cap_n = 0
    /\ cap_bytes = 0
    /\ ctl_pc = "loop"
    /\ ctl_it = NoIter
    /\ stats_acc = <<>>
    /\ win_flows = NoWindow
    /\ win_rows = EmptyDict
    /\ win_stats = ZeroStats
    /\ snap_rows = EmptyDict
    /\ running = TRUE
    /\ force_render = TRUE

\* time.time() advances
Tick ==
    /\ now < MaxClock
    /\ now' = now + 1
    /\ UNCHANGED <<FLOW_TIMEOUT, flow_table, start_ts, heap, render_expired, last_op, last_pkt, swept>>
    /\ UNCHANGED <<conc, life>>

\* account_packet that compares the stored Flow's five-tuple with the packet's and, when
\* they differ, stores a new Flow under the hash
account_packet_verifying(p) ==
    /\ Accepts(p) => packets_n(flow_table, heap) < MaxPackets
    /\ IF ~Accepts(p)
       THEN UNCHANGED <<flow_table, heap>>
       ELSE LET hashsum == KeyOfPacket(p) IN
            IF /\ hashsum \in DOMAIN flow_table
               /\ <<heap[flow_table[hashsum]].src_ip, heap[flow_table[hashsum]].dst_ip,
                     heap[flow_table[hashsum]].src_port, heap[flow_table[hashsum]].dst_port,
                     heap[flow_table[hashsum]].ip_proto>> = FiveTuple(p)
            THEN /\ heap' = [heap EXCEPT ![flow_table[hashsum]] = Flow_account_packet(@, p, now)]
                 /\ UNCHANGED flow_table
            ELSE LET id == NewId(heap) IN
                 /\ flow_table' = [h \in DOMAIN flow_table \cup {hashsum} |->
                                     IF h = hashsum THEN id ELSE flow_table[h]]
                 /\ heap' = Restrict((id :> Flow_account_packet(Flow(FiveTuple(p), now), p, now))
                                       @@ heap, Range(flow_table'))
    /\ last_op' = "account_packet"
    /\ last_pkt' = p
    /\ swept' = {}
    /\ UNCHANGED <<now, FLOW_TIMEOUT, start_ts, render_expired>>
    /\ UNCHANGED <<conc, life>>

\* FlowTracker.account_packet(packet)
account_packet(p) ==
    /\ Accepts(p) => packets_n(flow_table, heap) < MaxPackets
    /\ IF ~Accepts(p)
       THEN UNCHANGED <<flow_table, heap>>
       ELSE LET hashsum == KeyOfPacket(p) IN
            IF hashsum \in DOMAIN flow_table
            THEN /\ heap' = [heap EXCEPT ![flow_table[hashsum]] = Flow_account_packet(@, p, now)]
                 /\ UNCHANGED flow_table
            ELSE LET id == NewId(heap) IN
                 /\ flow_table' = (hashsum :> id) @@ flow_table
                 /\ heap' = (id :> Flow_account_packet(Flow(FiveTuple(p), now), p, now)) @@ heap
    /\ last_op' = "account_packet"
    /\ last_pkt' = p
    /\ swept' = {}
    /\ UNCHANGED <<now, FLOW_TIMEOUT, start_ts, render_expired>>
    /\ UNCHANGED <<conc, life>>

\* expire_flows() that deletes the Flows it finds idle from the table
expire_flows_removing ==
    LET S == ExpireSet(FLOW_TIMEOUT, flow_table, heap, now) IN
    /\ flow_table' = Restrict(flow_table, DOMAIN flow_table \ S)
    /\ heap' = Restrict(heap, Range(flow_table'))
    /\ swept' = S
    /\ last_op' = "expire_flows"
    /\ last_pkt' = NoPacket
    /\ UNCHANGED <<now, FLOW_TIMEOUT, start_ts, render_expired>>
    /\ UNCHANGED <<conc, life>>

\* FlowTracker.expire_flows()
expire_flows ==
    LET S == ExpireSet(FLOW_TIMEOUT, flow_table, heap, now) IN
    /\ heap' = [id \in DOMAIN heap |->
                  IF id \in {flow_table[h] : h \in S} THEN Flow_expire(heap[id]) ELSE heap[id]]
    /\ swept' = S
    /\ last_op' = "expire_flows"
    /\ last_pkt' = NoPacket
    /\ UNCHANGED <<now, FLOW_TIMEOUT, flow_table, start_ts, render_expired>>
    /\ UNCHANGED <<conc, life>>

\* clear() that resets the timeframe origin and keeps the table
clear_keeps_table ==
    /\ start_ts' = now
    /\ last_op' = "clear"
    /\ last_pkt' = NoPacket
    /\ swept' = {}
    /\ UNCHANGED <<now, FLOW_TIMEOUT, flow_table, heap, render_expired>>
    /\ UNCHANGED <<conc, life>>

\* FlowTracker.clear()
clear ==
    /\ flow_table' = EmptyDict
    /\ start_ts' = now
    /\ heap' = EmptyDict
    /\ last_op' = "clear"
    /\ last_pkt' = NoPacket
    /\ swept' = {}
    /\ UNCHANGED <<now, FLOW_TIMEOUT, render_expired>>
    /\ UNCHANGED <<conc, life>>

\* The FlowTracker's methods, one call at a time, each running to its end.
Next ==
    \/ Tick
    \/ \E p \in Packets : account_packet(p)
    \/ expire_flows
    \/ clear

Spec == Init /\ [][Next]_vars

\* ------------------------------------------------------------- the two threads
\* The capture thread (scapy.sniff calling account_packet for each packet) and the
\* control thread (FlowTop.run) share the table without a lock; the interpreter may
\* switch between them after any statement and inside any loop written in Python.
capvars == <<cap_pc, cap_pkt, cap_flow, cap_n, cap_bytes>>

ctlvars == <<ctl_pc, ctl_it, stats_acc, win_flows, win_rows, win_stats, snap_rows>>

\* the process has ended: by an exception of the control thread, which is the main
\* thread, or by its return; the capture thread is a daemon thread (line 330) and ends
\* with the process
ProcessOver == {"crashed", "exited"}

\* the objects the capture thread's locals reach
CapLocals(f) == {f} \ {0}

\* iter(dict): the iterator remembers the size of the dict; quiet records that the
\* capture thread has been between two packets since the iteration began
BeginIter(d) ==
    [on |-> TRUE, used |-> Cardinality(DOMAIN d), todo |-> DOMAIN d, sum |-> 0, dict |-> EmptyDict,
     quiet |-> cap_pc = "idle"]

\* next(iterator) raises RuntimeError when the dict has changed size
ChangedSize(it, d) == Cardinality(DOMAIN d) # it.used

\* account_packet, lines 292-307: the layer tests, the five-tuple and its hash
cap_receive(p) ==
    /\ cap_pc = "idle"
    /\ ctl_pc \notin ProcessOver
    /\ Accepts(p) => cap_n < MaxPackets
    /\ IF Accepts(p)
       THEN /\ cap_pkt' = p
            /\ cap_pc' = "test"
            /\ cap_n' = cap_n + 1
            /\ cap_bytes' = cap_bytes + p.len
            /\ ctl_it' = [ctl_it EXCEPT !.quiet = FALSE]
            /\ UNCHANGED cap_flow
       ELSE UNCHANGED <<capvars, ctl_it>>
    /\ UNCHANGED <<data, hist, ctl_pc, stats_acc, win_flows, win_rows, win_stats, snap_rows>>
    /\ UNCHANGED life

\* line 309: if hashsum in self.__flow_table
cap_test ==
    /\ cap_pc = "test"
    /\ ctl_pc \notin ProcessOver
    /\ cap_pc' = IF KeyOfPacket(cap_pkt) \in DOMAIN flow_table THEN "lookup" ELSE "create"
    /\ UNCHANGED <<data, hist, ctlvars, cap_pkt, cap_flow, cap_n, cap_bytes>>
    /\ UNCHANGED life

\* line 310: flow = self.__flow_table[hashsum]; a KeyError ends the capture thread
cap_lookup ==
    /\ cap_pc = "lookup"
    /\ ctl_pc \notin ProcessOver
    /\ IF KeyOfPacket(cap_pkt) \in DOMAIN flow_table
       THEN /\ cap_flow' = flow_table[KeyOfPacket(cap_pkt)]
            /\ cap_pc' = "account"
            /\ UNCHANGED cap_pkt
       ELSE /\ cap_flow' = 0
            /\ cap_pc' = "crashed"
            /\ cap_pkt' = NoPacket
    /\ UNCHANGED <<data, hist, ctlvars, cap_n, cap_bytes>>
    /\ UNCHANGED life

\* line 312: flow = Flow(*five_tuple)
cap_create ==
    /\ cap_pc = "create"
    /\ ctl_pc \notin ProcessOver
    /\ cap_flow' = NewId(heap)
    /\ heap' = (cap_flow' :> Flow(FiveTuple(cap_pkt), now)) @@ heap
    /\ cap_pc' = "insert"
    /\ UNCHANGED <<now, FLOW_TIMEOUT, flow_table, start_ts, render_expired,
                   hist, ctlvars, cap_pkt, cap_n, cap_bytes>>
    /\ UNCHANGED life

\* line 313: self.__flow_table[hashsum] = flow
cap_insert ==
    /\ cap_pc = "insert"
    /\ ctl_pc \notin ProcessOver
    /\ flow_table' = (KeyOfPacket(cap_pkt) :> cap_flow) @@ flow_table
    /\ heap' = Collect(heap, flow_table', win_flows, CapLocals(cap_flow))
    /\ cap_pc' = "account"
    /\ UNCHANGED <<now, FLOW_TIMEOUT, start_ts, render_expired,
                   hist, ctlvars, cap_pkt, cap_flow, cap_n, cap_bytes>>
    /\ UNCHANGED life

\* line 315 returning without the call of flow.account_packet
cap_account_dropped ==
    /\ cap_pc = "account"
    /\ ctl_pc \notin ProcessOver
    /\ heap' = Collect(heap, flow_table, win_flows, {})
    /\ cap_pc' = "idle"
    /\ cap_pkt' = NoPacket
    /\ cap_flow' = 0
    /\ UNCHANGED <<now, FLOW_TIMEOUT, flow_table, start_ts, render_expired,
                   hist, ctlvars, cap_n, cap_bytes>>
    /\ UNCHANGED life

\* line 315: flow.account_packet(packet), and the return
cap_account ==
    /\ cap_pc = "account"
    /\ ctl_pc \notin ProcessOver
    /\ heap' = Collect([heap EXCEPT ![cap_flow] = Flow_account_packet(@, cap_pkt, now)],
                       flow_table, win_flows, {})
    /\ cap_pc' = "idle"
    /\ cap_pkt' = NoPacket
    /\ cap_flow' = 0
    /\ UNCHANGED <<now, FLOW_TIMEOUT, flow_table, start_ts, render_expired,
                   hist, ctlvars, cap_n, cap_bytes>>
    /\ UNCHANGED life

\* FlowTop.run, F3
ctl_toggle ==
    /\ ctl_pc = "loop"
    /\ render_expired' = ~render_expired
    /\ UNCHANGED <<now, FLOW_TIMEOUT, flow_table, start_ts, heap, hist, conc>>
    /\ UNCHANGED life

\* FlowTop.run, F5: clear(), line 288: self.__flow_table = {}
ctl_clear_table ==
    /\ ctl_pc = "loop"
    /\ flow_table' = EmptyDict
    /\ heap' = Collect(heap, flow_table', win_flows, CapLocals(cap_flow))
    /\ ctl_pc' = "clear_ts"
    /\ UNCHANGED <<now, FLOW_TIMEOUT, start_ts, render_expired, hist, capvars,
                   ctl_it, stats_acc, win_flows, win_rows, win_stats, snap_rows>>
    /\ UNCHANGED life

\* clear(), line 289: self.__start_ts = time.time()
ctl_clear_ts ==
    /\ ctl_pc = "clear_ts"
    /\ start_ts' = now
    /\ ctl_pc' = "loop"
    /\ UNCHANGED <<now, FLOW_TIMEOUT, flow_table, heap, render_expired, hist, capvars,
                   ctl_it, stats_acc, win_flows, win_rows, win_stats, snap_rows>>
    /\ UNCHANGED life

\* expire_flows(), lines 318-321: the switch, and the iterator over the table's items
ctl_expire_begin ==
    /\ ctl_pc = "loop"
    /\ IF FLOW_TIMEOUT = NO_EXPIRATION
       THEN UNCHANGED <<ctl_pc, ctl_it>>
       ELSE /\ ctl_it' = BeginIter(flow_table)
            /\ ctl_pc' = "expire_flows"
    /\ UNCHANGED <<data, hist, capvars, stats_acc, win_flows, win_rows, win_stats, snap_rows>>
    /\ UNCHANGED life

\* expire_flows(), lines 321-323: one turn of the loop
ctl_expire_next ==
    /\ ctl_pc = "expire_flows"
    /\ IF ChangedSize(ctl_it, flow_table)
       THEN /\ ctl_pc' = "crashed"
            /\ ctl_it' = NoIter
            /\ UNCHANGED heap
       ELSE IF ctl_it.todo = {}
       THEN /\ ctl_pc' = "loop"
            /\ ctl_it' = NoIter
            /\ UNCHANGED heap
       ELSE \E h \in ctl_it.todo :
            /\ heap' = IF h \in ExpireSet(FLOW_TIMEOUT, flow_table, heap, now)
                       THEN [heap EXCEPT ![flow_table[h]] = Flow_expire(@)]
                       ELSE heap
            /\ ctl_it' = [ctl_it EXCEPT !.todo = @ \ {h}]
            /\ UNCHANGED ctl_pc
    /\ UNCHANGED <<now, FLOW_TIMEOUT, flow_table, start_ts, render_expired, hist, capvars,
                   stats_acc, win_flows, win_rows, win_stats, snap_rows>>
    /\ UNCHANGED life

\* render(), lines 122-124: the snapshot handed to set_flows is the table itself
\* (flows), or the dict that active_flows builds in a loop over the table's items
ctl_render_begin ==
    /\ ctl_pc = "loop"
    /\ IF render_expired
       THEN /\ win_flows' = flows(flow_table)
            /\ snap_rows' = Rows(flow_table, heap)
            /\ ctl_pc' = "stats"
            /\ UNCHANGED ctl_it
       ELSE /\ ctl_it' = BeginIter(flow_table)
            /\ ctl_pc' = "active_flows"
            /\ UNCHANGED <<win_flows, snap_rows>>
    /\ UNCHANGED <<data, hist, capvars, stats_acc, win_rows, win_stats>>
    /\ UNCHANGED life

\* active_flows, line 239: one turn of the dict comprehension
ctl_active_next ==
    /\ ctl_pc = "active_flows"
    /\ IF ChangedSize(ctl_it, flow_table)
       THEN /\ ctl_pc' = "crashed"
            /\ ctl_it' = NoIter
            /\ UNCHANGED <<win_flows, snap_rows>>
       ELSE IF ctl_it.todo = {}
       THEN /\ win_flows' = [alias |-> FALSE, dict |-> ctl_it.dict]
            /\ snap_rows' = Rows(ctl_it.dict, heap)
            /\ ctl_pc' = "stats"
            /\ ctl_it' = NoIter
       ELSE \E h \in ctl_it.todo :
            /\ ctl_it' = [ctl_it EXCEPT
                            !.todo = @ \ {h},
                            !.dict = IF ~heap[flow_table[h]].expired
                                     THEN (h :> flow_table[h]) @@ @ ELSE @]
            /\ UNCHANGED <<ctl_pc, win_flows, snap_rows>>
    /\ UNCHANGED <<data, hist, capvars, stats_acc, win_rows, win_stats>>
    /\ UNCHANGED life

\* stats, line 272: the field evaluated next, 1 .. 6
StatsField == Len(stats_acc) + 1

\* packets_n, avg_packets_per_s, bytes_n, avg_bytes_per_s: each starts a loop over
\* the table's values (lines 250 and 261)
ctl_stats_sum_begin ==
    /\ ctl_pc = "stats"
    /\ StatsField \in 1 .. 4
    /\ ~ctl_it.on
    /\ ctl_it' = BeginIter(flow_table)
    /\ UNCHANGED <<data, hist, capvars, ctl_pc, stats_acc, win_flows, win_rows, win_stats, snap_rows>>
    /\ UNCHANGED life

\* one turn of the list comprehension; at its end the sum, or for an avg_* field the
\* sum divided by timeframe (lines 253-268)
ctl_stats_sum_next ==
    /\ ctl_pc = "stats"
    /\ ctl_it.on
    /\ IF ChangedSize(ctl_it, flow_table)
       THEN /\ ctl_pc' = "crashed"
            /\ ctl_it' = NoIter
            /\ UNCHANGED stats_acc
       ELSE IF ctl_it.todo = {}
       THEN /\ stats_acc' = Append(stats_acc,
                                   IF StatsField \in {1, 3} THEN ctl_it.sum
                                   ELSE Rate(ctl_it.sum, timeframe(now, start_ts)))
            /\ ctl_it' = NoIter
            /\ UNCHANGED ctl_pc
       ELSE \E h \in ctl_it.todo :
            /\ ctl_it' = [ctl_it EXCEPT
                            !.todo = @ \ {h},
                            !.sum = @ + (IF StatsField \in {1, 2}
                                         THEN heap[flow_table[h]].packets_n
                                         ELSE heap[flow_table[h]].bytes_n)]
            /\ UNCHANGED <<ctl_pc, stats_acc>>
    /\ UNCHANGED <<data, hist, capvars, win_flows, win_rows, win_stats, snap_rows>>
    /\ UNCHANGED life

\* flows_n and avg_flows_per_s (lines 235 and 242-246): len(list(dict)) is one step
ctl_stats_flows ==
    /\ ctl_pc = "stats"
    /\ StatsField \in 5 .. 6
    /\ stats_acc' = Append(stats_acc,
                           IF StatsField = 5 THEN flows_n(flow_table)
                           ELSE avg_flows_per_s(flow_table, now, start_ts))
    /\ ctl_pc' = IF StatsField = 6 THEN "update" ELSE "stats"
    /\ UNCHANGED <<data, hist, capvars, ctl_it, win_flows, win_rows, win_stats, snap_rows>>
    /\ UNCHANGED life

\* render(), lines 125-126: set_global_stats(*stats) and update(): FlowTableWindow._update
\* sorts self.__flows and reads the counters of its Flows
ctl_update ==
    /\ ctl_pc = "update"
    /\ win_stats' = stats_acc
    /\ win_rows' = Rows(DictOf(win_flows, flow_table), heap)
    /\ stats_acc' = <<>>
    /\ ctl_pc' = "drawn"
    /\ UNCHANGED <<data, hist, capvars, ctl_it, win_flows, snap_rows>>
    /\ UNCHANGED life

\* FlowTop.run, line 119: time.sleep(0.1); what the windows hold is not read again
\* before the next render overwrites it
ctl_sleep ==
    /\ ctl_pc = "drawn"
    /\ ctl_pc' = "loop"
    /\ win_flows' = NoWindow
    /\ win_rows' = EmptyDict
    /\ win_stats' = ZeroStats
    /\ snap_rows' = EmptyDict
    /\ heap' = Collect(heap, flow_table, win_flows', CapLocals(cap_flow))
    /\ UNCHANGED <<now, FLOW_TIMEOUT, flow_table, start_ts, render_expired, hist, capvars,
                   ctl_it, stats_acc>>
    /\ UNCHANGED life

\* time.time() advances; the two threads see the clock a whole second later
ConcTick ==
    /\ ctl_pc \notin ProcessOver
    /\ now + TicksPerSec <= MaxClock
    /\ now' = now + TicksPerSec
    /\ UNCHANGED <<FLOW_TIMEOUT, flow_table, start_ts, heap, render_expired, hist, conc>>
    /\ UNCHANGED life

\* The packets the capture thread is handed: TCP packets of both directions, a UDP
\* packet and an ICMP packet.
ConcPackets ==
    {p \in Packets :
        \/ p.l4 = "TCP" /\ p.ip /\ (p.len = 40 \/ p.sport = 1234)
        \/ p.l4 \in {"UDP", "ICMP"} /\ p.ip /\ p.len = 40 /\ p.sport = 1234}

ConcNext ==
    \/ ConcTick
    \/ \E p \in ConcPackets : cap_receive(p)
    \/ cap_test
    \/ cap_lookup
    \/ cap_create
    \/ cap_insert
    \/ cap_account
    \/ ctl_toggle
    \/ ctl_clear_table
    \/ ctl_clear_ts
    \/ ctl_expire_begin
    \/ ctl_expire_next
    \/ ctl_render_begin
    \/ ctl_active_next
    \/ ctl_stats_sum_begin
    \/ ctl_stats_sum_next
    \/ ctl_stats_flows
    \/ ctl_update
    \/ ctl_sleep

ConcSpec == Init /\ [][ConcNext]_vars

\* The capture thread ingests packets while the control thread sweeps and renders, and
\* clear() is not called.
ReadNext ==
    \/ ConcTick
    \/ \E p \in ConcPackets : cap_receive(p)
    \/ cap_test
    \/ cap_lookup
    \/ cap_create
    \/ cap_insert
    \/ cap_account
    \/ ctl_toggle
    \/ ctl_expire_begin
    \/ ctl_expire_next
    \/ ctl_render_begin
    \/ ctl_active_next
    \/ ctl_stats_sum_begin
    \/ ctl_stats_sum_next
    \/ ctl_stats_flows
    \/ ctl_update
    \/ ctl_sleep

ReadSpec == Init /\ [][ReadNext]_vars

\* ------------------------------------------------------------- start and shutdown
\* FlowTop.run from its first line to the end of the process.  Each call in the body of
\* the while loop is one step here; how the statements inside these calls interleave
\* with the capture thread is ConcSpec's subject.
LifeInit ==
    /\ now = 0
    /\ FLOW_TIMEOUT \in {NO_EXPIRATION, MaxTimeout}
    /\ flow_table = EmptyDict
    /\ start_ts = now
    /\ heap = EmptyDict
    /\ render_expired = FALSE
    /\ last_op = "init"
    /\ last_pkt = NoPacket
    /\ swept = {}
    /\ cap_pc = "unstarted"
    /\ cap_pkt = NoPacket
    /\ cap_flow = 0
    /\ cap_n = 0
    /\ cap_bytes = 0
    /\ ctl_pc = "start"
    /\ ctl_it = NoIter
    /\ stats_acc = <<>>
    /\ win_flows = NoWindow
    /\ win_rows = EmptyDict
    /\ win_stats = ZeroStats
    /\ snap_rows = EmptyDict
    /\ running = TRUE
    /\ force_render = TRUE

windows == <<win_flows, win_rows, win_stats, snap_rows>>

\* run, lines 100-102: force_render = True and self.__ft.start(), which creates and
\* starts the daemon thread and returns
run_start ==
    /\ ctl_pc = "start"
    /\ cap_pc = "unstarted"
    /\ force_render' = TRUE
    /\ cap_pc' = "opening"
    /\ ctl_pc' = "while"
    /\ UNCHANGED <<data, hist, cap_pkt, cap_flow, cap_n, cap_bytes, ctl_it, stats_acc,
                   windows, running>>

\* capture, line 326: scapy.sniff opens the interface, or raises (no such interface,
\* no privilege) and the thread ends with the exception
sniff_open(ok) ==
    /\ cap_pc = "opening"
    /\ ctl_pc \notin ProcessOver
    /\ cap_pc' = IF ok THEN "idle" ELSE "failed"
    /\ UNCHANGED <<data, hist, cap_pkt, cap_flow, cap_n, cap_bytes, ctlvars, life>>

\* run, line 104: while self.__running; when it is false run returns, and so does main
run_while ==
    /\ ctl_pc = "while"
    /\ ctl_pc' = IF running THEN "key" ELSE "returned"
    /\ UNCHANGED <<data, hist, capvars, ctl_it, stats_acc, windows, life>>

\* The keys get_pressed_key returns: none, F2 (an action of the windows), F3, F5, F10.
Keys == {"none", "F2", "F3", "F5", "F10"}

\* run, lines 105-110: the actions of the pressed key, then force_render = True
run_key(key) ==
    /\ ctl_pc = "key"
    /\ render_expired' = IF key = "F3" THEN ~render_expired ELSE render_expired
    /\ flow_table' = IF key = "F5" THEN EmptyDict ELSE flow_table
    /\ start_ts' = IF key = "F5" THEN now ELSE start_ts
    /\ heap' = Collect(heap, flow_table', win_flows, CapLocals(cap_flow))
    /\ running' = IF key = "F10" THEN FALSE ELSE running
    /\ force_render' = IF key = "none" THEN force_render ELSE TRUE
    /\ ctl_pc' = "expire"
    /\ UNCHANGED <<now, FLOW_TIMEOUT, hist, capvars, ctl_it, stats_acc, windows>>

\* run, line 112: self.__ft.expire_flows()
run_expire ==
    /\ ctl_pc = "expire"
    /\ heap' = [id \in DOMAIN heap |->
                  IF id \in {flow_table[h] : h \in ExpireSet(FLOW_TIMEOUT, flow_table, heap, now)}
                  THEN Flow_expire(heap[id]) ELSE heap[id]]
    /\ ctl_pc' = "render"
    /\ UNCHANGED <<now, FLOW_TIMEOUT, flow_table, start_ts, render_expired, hist, capvars,
                   ctl_it, stats_acc, windows, life>>

\* run, lines 114-117: render() when force_render is set or more than RENDER_INTERVAL
\* has gone by since the last one (elapsed), then force_render = False
run_render(elapsed) ==
    /\ ctl_pc = "render"
    /\ IF force_render \/ elapsed
       THEN /\ win_flows' = IF render_expired THEN flows(flow_table)
                            ELSE active_flows(flow_table, heap)
            /\ snap_rows' = Rows(DictOf(win_flows', flow_table), heap)
            /\ win_stats' = stats(flow_table, heap, now, start_ts)
            /\ win_rows' = Rows(DictOf(win_flows', flow_table), heap)
            /\ force_render' = FALSE
       ELSE UNCHANGED <<windows, force_render>>
    /\ ctl_pc' = "sleep"
    /\ UNCHANGED <<data, hist, capvars, ctl_it, stats_acc, running>>

\* run, line 119: time.sleep(0.1); what the windows hold is not read again before the
\* next render overwrites it
run_sleep ==
    /\ ctl_pc = "sleep"
    /\ ctl_pc' = "while"
    /\ win_flows' = NoWindow
    /\ win_rows' = EmptyDict
    /\ win_stats' = ZeroStats
    /\ snap_rows' = EmptyDict
    /\ heap' = Collect(heap, flow_table, win_flows', CapLocals(cap_flow))
    /\ UNCHANGED <<now, FLOW_TIMEOUT, flow_table, start_ts, render_expired, hist, capvars,
                   ctl_it, stats_acc, life>>

\* main has returned and the interpreter shuts down.  Nothing stops scapy.sniff.  The
\* interpreter may finalise the FlowTracker, whose __del__ (lines 225-227) joins the
\* capture thread (del), or end the process without doing so.
interpreter_exit(del) ==
    /\ ctl_pc = "returned"
    /\ ctl_pc' = IF del THEN "joining" ELSE "exited"
    /\ UNCHANGED <<data, hist, capvars, ctl_it, stats_acc, windows, life>>

\* __del__, line 227: self.__receiving_thread.join() returns once the thread has ended
del_join ==
    /\ ctl_pc = "joining"
    /\ cap_pc \in {"failed", "crashed"}
    /\ ctl_pc' = "exited"
    /\ UNCHANGED <<data, hist, capvars, ctl_it, stats_acc, windows, life>>

LifeNext ==
    \/ run_start
    \/ \E ok \in BOOLEAN : sniff_open(ok)
    \/ run_while
    \/ \E key \in Keys : run_key(key)
    \/ run_expire
    \/ \E elapsed \in BOOLEAN : run_render(elapsed)
    \/ run_sleep
    \/ \E del \in BOOLEAN : interpreter_exit(del)
    \/ del_join
    \/ ConcTick
    \/ \E p \in ConcPackets : cap_receive(p)
    \/ cap_test
    \/ cap_lookup
    \/ cap_create
    \/ cap_insert
    \/ cap_account

LifeSpec == LifeInit /\ [][LifeNext]_vars

\* The accepted packets of every pair of addresses and ports, one length.
DirPackets == {p \in AllPackets : p.ip /\ p.l4 \in {"TCP", "UDP"} /\ p.len = 40}

\* Packets of any two five-tuples ingested into an empty table.
DirNext == \E p \in DirPackets : account_packet(p)

DirSpec == Init /\ [][DirNext]_vars

\* ------------------------------------------------------------- claims
KeyOf(p) == HashOf[FiveTuple(p)]

Reverse(t) == <<t[2], t[1], t[4], t[3], t[5]>>

Identity(f) == <<f.src_ip, f.dst_ip, f.src_port, f.dst_port, f.ip_proto>>

PacketsBefore(h) == IF h \in DOMAIN flow_table THEN heap[flow_table[h]].packets_n ELSE 0

BytesBefore(h) == IF h \in DOMAIN flow_table THEN heap[flow_table[h]].bytes_n ELSE 0

\* real elapsed idle time of the Flow under h, in ticks
Idle(h) == now - heap[flow_table[h]].last_activity

\* C1: a packet with an IP layer and a TCP or UDP layer adds exactly 1 to packets_n and
\* len(packet) to bytes_n of the Flow under its hash (0/0 before when the Flow is new),
\* and leaves the counters of every other Flow alone.
C1_AccountingExact ==
    [][LET p == last_pkt' IN
          (p.ip /\ p.l4 \in {"TCP", "UDP"} /\ account_packet(p)) =>
              /\ KeyOf(p) \in DOMAIN flow_table'
              /\ heap'[flow_table'[KeyOf(p)]].packets_n = PacketsBefore(KeyOf(p)) + 1
              /\ heap'[flow_table'[KeyOf(p)]].bytes_n = BytesBefore(KeyOf(p)) + p.len
              /\ \A k \in DOMAIN flow_table \ {KeyOf(p)} :
                    /\ k \in DOMAIN flow_table'
                    /\ flow_table'[k] = flow_table[k]
                    /\ heap'[flow_table'[k]].packets_n = heap[flow_table[k]].packets_n
                    /\ heap'[flow_table'[k]].bytes_n = heap[flow_table[k]].bytes_n]_vars

\* a second packet was accounted to a Flow: 40 + 60 bytes in 2 packets
C1_Witness ==
    /\ last_op = "account_packet"
    /\ last_pkt.ip /\ last_pkt.l4 \in {"TCP", "UDP"}
    /\ KeyOf(last_pkt) \in DOMAIN flow_table
    /\ heap[flow_table[KeyOf(last_pkt)]].packets_n = 2
    /\ heap[flow_table[KeyOf(last_pkt)]].bytes_n = 100

\* the table holds one Flow, with one packet, and p is a packet of the reversed tuple
ReversedArrives(p) ==
    /\ p.ip /\ p.l4 \in {"TCP", "UDP"}
    /\ Reverse(FiveTuple(p)) # FiveTuple(p)
    /\ Cardinality(DOMAIN flow_table) = 1
    /\ \A h \in DOMAIN flow_table :
          /\ heap[flow_table[h]].packets_n = 1
          /\ Identity(heap[flow_table[h]]) = Reverse(FiveTuple(p))
    /\ account_packet(p)

C3_Original ==
    [][(expire_flows /\ FLOW_TIMEOUT # NO_EXPIRATION) =>
          \A h \in DOMAIN flow_table :
              (h \in swept') <=> (Idle(h) > FLOW_TIMEOUT * TicksPerSec)]_vars

\* C3 amended: the sweep passes a Flow to expire() if and only if the difference of the
\* whole seconds int(now) - int(last_activity) is greater than T.  So every Flow idle
\* for T + 1 seconds or more is marked expired, no Flow idle for T seconds or less is,
\* and a Flow idle for between T and T + 1 seconds is marked or not with the sub-second
\* alignment of the two timestamps.
C3_WholeSecondSweep ==
    [][(expire_flows /\ FLOW_TIMEOUT # NO_EXPIRATION) =>
          \A h \in DOMAIN flow_table :
              /\ (h \in swept') <=>
                    ((now \div TicksPerSec) - (heap[flow_table[h]].last_activity \div TicksPerSec)
                        > FLOW_TIMEOUT)
              /\ Idle(h) >= (FLOW_TIMEOUT + 1) * TicksPerSec => h \in swept'
              /\ Idle(h) <= FLOW_TIMEOUT * TicksPerSec => h \notin swept'
              /\ heap'[flow_table'[h]].expired
                    = (heap[flow_table[h]].expired \/ h \in swept')]_vars

\* a sweep with a non-zero timeout has marked a Flow expired
C3_Witness ==
    /\ last_op = "expire_flows"
    /\ FLOW_TIMEOUT # NO_EXPIRATION
    /\ \E h \in swept : heap[flow_table[h]].expired /\ Idle(h) > FLOW_TIMEOUT * TicksPerSec

\* C4: the active-only snapshot holds exactly the Flows of the table that are not
\* expired, the full snapshot holds every Flow of the table.
C4_Snapshots ==
    LET act == DictOf(active_flows(flow_table, heap), flow_table)
        full == DictOf(flows(flow_table), flow_table)
    IN  /\ DOMAIN act = {h \in DOMAIN flow_table : heap[flow_table[h]].expired = FALSE}
        /\ \A h \in DOMAIN act : act[h] = flow_table[h]
        /\ DOMAIN full = DOMAIN flow_table
        /\ \A h \in DOMAIN full : full[h] = flow_table[h]

\* a sweep has marked a Flow expired: it is in the full snapshot and not in the active one
C4_Witness ==
    /\ last_op = "expire_flows"
    /\ \E h \in swept :
          /\ heap[flow_table[h]].expired
          /\ h \notin DOMAIN DictOf(active_flows(flow_table, heap), flow_table)
          /\ h \in DOMAIN DictOf(flows(flow_table), flow_table)

\* C5: with the timeout equal to NO_EXPIRATION, expire_flows() changes no Flow, not the
\* table and not the timeframe origin.
C5_NoExpiration ==
    [][(expire_flows /\ FLOW_TIMEOUT = NO_EXPIRATION) =>
          UNCHANGED <<flow_table, heap, start_ts>>]_vars

\* a sweep with timeout 0 has run over a Flow idle for a second or more and left it active
C5_Witness ==
    /\ last_op = "expire_flows"
    /\ FLOW_TIMEOUT = NO_EXPIRATION
    /\ \E h \in DOMAIN flow_table :
          /\ int(now) - int(heap[flow_table[h]].last_activity) >= 1
          /\ ~heap[flow_table[h]].expired

\* C6: after clear(), until a packet is accounted, the full snapshot is empty and
\* stats is (0, 0, 0, 0, 0, 0), whatever the clock.
C6_ClearZeroes ==
    last_op = "clear" =>
        /\ DictOf(flows(flow_table), flow_table) = EmptyDict
        /\ stats(flow_table, heap, now, start_ts) = ZeroStats

\* clear() has returned, and a second or more has gone by since
C6_Witness ==
    /\ last_op = "clear"
    /\ timeframe(now, start_ts) >= 1

\* C7 as stated, for the tuple stats has returned to render: each avg_* field is the
\* total of that same tuple divided by a timeframe in whole seconds, or 0 when that
\* timeframe is 0.
C7_AvgOfSameTuple ==
    ctl_pc = "drawn" =>
        \A i \in {1, 3, 5} :
            \E tf \in 0 .. (MaxClock \div TicksPerSec) : win_stats[i + 1] = Rate(win_stats[i], tf)

\* C8: a packet without an IP layer, or with an IP layer and no TCP, UDP or SCTP layer,
\* is dropped: the table and every Flow stay as they are.
C8_Dropped ==
    [][LET p == last_pkt' IN
          ((~p.ip \/ p.l4 = "ICMP") /\ account_packet(p)) =>
              UNCHANGED <<flow_table, heap>>]_vars

\* a packet without IP layer was handed to account_packet while the table held a Flow
C8_Witness ==
    /\ last_op = "account_packet"
    /\ ~last_pkt.ip
    /\ last_pkt.l4 = "TCP"
    /\ flow_table # EmptyDict

\* C9 as stated: an IP packet with an SCTP layer creates the Flow of its five-tuple if
\* there is none and adds 1 to its packets_n and len(packet) to its bytes_n.
C9_SctpAccounted ==
    [][LET p == last_pkt' IN
          (p.ip /\ p.l4 = "SCTP" /\ account_packet(p)) =>
              /\ KeyOf(p) \in DOMAIN flow_table'
              /\ heap'[flow_table'[KeyOf(p)]].packets_n = PacketsBefore(KeyOf(p)) + 1
              /\ heap'[flow_table'[KeyOf(p)]].bytes_n = BytesBefore(KeyOf(p)) + p.len]_vars

\* C10 as stated, when update() has drawn the snapshot handed to set_flows: the sort did
\* not run on the table itself, and the Flows and the counters read from the snapshot
\* are those of the moment the snapshot was taken.
C10_PointInTimeCopy ==
    ctl_pc = "drawn" =>
        /\ ~win_flows.alias
        /\ DOMAIN win_rows = DOMAIN snap_rows
        /\ \A h \in DOMAIN win_rows : win_rows[h] = snap_rows[h]

\* what the sum in progress comes to when the loop over the table's values ends
SumAtEnd ==
    ctl_it.sum + Sum([h \in ctl_it.todo |->
                        IF StatsField \in {1, 2} THEN heap[flow_table[h]].packets_n
                        ELSE heap[flow_table[h]].bytes_n])

\* C11: with one capture thread, a control thread that sweeps, takes snapshots and reads
\* stats in any interleaving, and no clear(), no update is lost: whenever the capture
\* thread is between two packets, having been handed N accepted packets, packets_n is N
\* and bytes_n is the sum of their lengths, and the sums that stats computes in a loop
\* during which the capture thread stays between two packets come to these values.
C11_NoLostUpdate ==
    /\ cap_pc = "idle" =>
          /\ stats(flow_table, heap, now, start_ts)[1] = cap_n
          /\ stats(flow_table, heap, now, start_ts)[3] = cap_bytes
    /\ (ctl_pc = "stats" /\ ctl_it.on /\ ctl_it.quiet) =>
          /\ ctl_it.todo \subseteq DOMAIN flow_table
          /\ SumAtEnd = (IF StatsField \in {1, 2} THEN cap_n ELSE cap_bytes)

\* packets of two tuples, 40 and 60 bytes long, were ingested, and stats has summed
\* bytes_n over the two Flows with the capture thread between two packets
C11_Witness ==
    /\ cap_pc = "idle"
    /\ cap_n = 2
    /\ cap_bytes = 100
    /\ flows_n(flow_table) = 2
    /\ ctl_pc = "stats"
    /\ StatsField = 3
    /\ ctl_it.on /\ ctl_it.quiet /\ ctl_it.todo = {}
    /\ ctl_it.sum = 100

\* the capture thread has ended: sniff raised, or account_packet raised inside it
CaptureEnded == cap_pc \in {"failed", "crashed"}

\* C12 as stated: after shutdown the capture source is stopped and the capture thread
\* ends and is joined before the process exits: the process never ends with the control
\* loop finished while the capture thread has not ended, and a join is never left
\* waiting on a thread that nothing stops.
C12_CleanShutdown ==
    /\ ctl_pc = "exited" => CaptureEnded
    /\ ctl_pc = "joining" => (CaptureEnded \/ cap_pc # "idle")

\* C13 as stated: once sniff has failed to open the interface, run neither calls
\* expire_flows() nor renders.
C13_NoLoopWithoutCapture ==
    [][cap_pc = "failed" =>
          /\ ~run_expire
          /\ ~(\E elapsed \in BOOLEAN : run_render(elapsed) /\ (force_render \/ elapsed))]_vars

\* C14 as stated: while the control thread iterates the table (the sweep, the
\* active_flows filter, the sums of stats) the table's key set stays what it was when
\* the iteration began, and no iteration ends with the changed-size RuntimeError.
C14_NoInsertDuringIteration ==
    /\ ctl_pc # "crashed"
    /\ ctl_it.on => flows_n(flow_table) = ctl_it.used

\* C15 as stated, for an account_packet call that overlaps clear(): the lookup after the
\* membership test never fails on a missing key, and the Flow the packet is about to be
\* accounted to is a Flow of the table.
C15_ClearAtomic ==
    /\ cap_pc # "crashed"
    /\ cap_pc = "account" => cap_flow \in Range(flow_table)

\* C19 as stated: in every reachable state, those between the statements of an
\* account_packet in progress included, every Flow of the table has accounted at
\* least one packet.
C19_FlowsHavePackets ==
    \A h \in DOMAIN flow_table : heap[flow_table[h]].packets_n >= 1

\* C16: without clear(), the expired flag of a Flow only goes from false to true: a Flow
\* that is expired is still in the table and still expired after any account_packet (a
\* packet of its own tuple included) and any expire_flows; expire() on an expired Flow
\* yields the same Flow, and a sweep leaves the Flows that are already expired as they are.
C16_ExpiredStaysExpired ==
    [][/\ ~clear =>
             \A h \in DOMAIN flow_table :
                 heap[flow_table[h]].expired =>
                     /\ h \in DOMAIN flow_table'
                     /\ heap'[flow_table'[h]].expired
       /\ \A id \in DOMAIN heap : heap[id].expired => Flow_expire(heap[id]) = heap[id]
       /\ expire_flows =>
             \A h \in DOMAIN flow_table :
                 heap[flow_table[h]].expired => heap'[flow_table'[h]] = heap[flow_table[h]]]_vars

\* an expired Flow was accounted a second packet, and the sweep that followed found it
\* recently active and left it expired
C16_Witness ==
    /\ last_op = "expire_flows"
    /\ \E h \in DOMAIN flow_table \ swept :
          /\ heap[flow_table[h]].expired
          /\ heap[flow_table[h]].packets_n = 2
          /\ int(now) - int(heap[flow_table[h]].last_activity) <= FLOW_TIMEOUT

\* C17: a step that is not clear() removes no key from the table and leaves under every
\* key the Flow object that was there, whose packets_n and bytes_n do not decrease; so
\* flows_n does not decrease between two clear() calls.
C17_TableOnlyGrows ==
    [][~clear =>
          /\ \A h \in DOMAIN flow_table :
                /\ h \in DOMAIN flow_table'
                /\ flow_table'[h] = flow_table[h]
                /\ heap'[flow_table'[h]].packets_n >= heap[flow_table[h]].packets_n
                /\ heap'[flow_table'[h]].bytes_n >= heap[flow_table[h]].bytes_n
          /\ flows_n(flow_table') >= flows_n(flow_table)]_vars

\* a sweep has marked the two Flows of the table expired, and the table still holds both
C17_Witness ==
    /\ last_op = "expire_flows"
    /\ flows_n(flow_table) = 2
    /\ swept = DOMAIN flow_table
    /\ \A h \in DOMAIN flow_table : heap[flow_table[h]].expired

\* C18: a packet whose five-tuple differs from the five-tuple of the Flow stored under
\* its hash (the two tuples have the same calc_five_tuple_hash) creates no Flow: the
\* table is unchanged, the stored Flow keeps the addresses, ports and protocol of the
\* tuple that created it, and the packet is added to its counters.
C18_CollisionMerges ==
    [][LET p == last_pkt'
           h == KeyOf(p)
       IN  (/\ p.ip /\ p.l4 \in {"TCP", "UDP"}
            /\ h \in DOMAIN flow_table
            /\ Identity(heap[flow_table[h]]) # FiveTuple(p)
            /\ account_packet(p)) =>
              /\ calc_five_tuple_hash(Identity(heap[flow_table[h]]))
                    = calc_five_tuple_hash(FiveTuple(p))
              /\ flow_table' = flow_table
              /\ flows_n(flow_table') = flows_n(flow_table)
              /\ Identity(heap'[flow_table'[h]]) = Identity(heap[flow_table[h]])
              /\ heap'[flow_table'[h]].packets_n = heap[flow_table[h]].packets_n + 1
              /\ heap'[flow_table'[h]].bytes_n = heap[flow_table[h]].bytes_n + p.len]_vars

\* a packet was accounted to a Flow created by another tuple, which is not the packet's
\* tuple reversed either
C18_Witness ==
    /\ last_op = "account_packet"
    /\ last_pkt.ip /\ last_pkt.l4 \in {"TCP", "UDP"}
    /\ KeyOf(last_pkt) \in DOMAIN flow_table
    /\ Identity(heap[flow_table[KeyOf(last_pkt)]]) # FiveTuple(last_pkt)
    /\ Identity(heap[flow_table[KeyOf(last_pkt)]]) # Reverse(FiveTuple(last_pkt))
    /\ heap[flow_table[KeyOf(last_pkt)]].packets_n = 2
    /\ flows_n(flow_table) = 1

\* C20: a packet of the tuple of an expired Flow is accounted to it: its packets_n,
\* bytes_n and the table's totals grow by 1 and len(packet), its last_activity is the
\* packet's time; the Flow stays expired and out of active_flows, and a sweep that finds
\* it recently active leaves it expired and out of active_flows.
C20_ExpiredStillCounts ==
    [][/\ LET p == last_pkt'
              h == KeyOf(p)
          IN  (/\ p.ip /\ p.l4 \in {"TCP", "UDP"}
               /\ h \in DOMAIN flow_table
               /\ heap[flow_table[h]].expired
               /\ account_packet(p)) =>
                 /\ heap'[flow_table'[h]].packets_n = heap[flow_table[h]].packets_n + 1
                 /\ heap'[flow_table'[h]].bytes_n = heap[flow_table[h]].bytes_n + p.len
                 /\ heap'[flow_table'[h]].last_activity = now
                 /\ packets_n(flow_table', heap') = packets_n(flow_table, heap) + 1
                 /\ bytes_n(flow_table', heap') = bytes_n(flow_table, heap) + p.len
                 /\ heap'[flow_table'[h]].expired
                 /\ h \notin DOMAIN active_flows(flow_table', heap').dict
       /\ expire_flows =>
             \A h \in DOMAIN flow_table :
                 heap[flow_table[h]].expired =>
                     /\ heap'[flow_table'[h]].expired
                     /\ h \notin DOMAIN active_flows(flow_table', heap').dict]_vars

\* an expired Flow has just been accounted its second packet: it counts in the totals
\* and is not among the active Flows
C20_Witness ==
    /\ last_op = "account_packet"
    /\ KeyOf(last_pkt) \in DOMAIN flow_table
    /\ heap[flow_table[KeyOf(last_pkt)]].expired
    /\ heap[flow_table[KeyOf(last_pkt)]].packets_n = 2
    /\ heap[flow_table[KeyOf(last_pkt)]].last_activity = now
    /\ packets_n(flow_table, heap) = 2
    /\ KeyOf(last_pkt) \notin DOMAIN active_flows(flow_table, heap).dict

====
